---- MODULE Spec2Model ----
(***************************************************************************)
(* MP3 frame counter (MPEG Version 1 Audio Layer 3).                       *)
(*                                                                         *)
(* A buffer is a sequence of bytes 0..255; the source indexes it from 0,   *)
(* the model from 1, so At(buffer, i) is buffer[i + 1].  The pure helpers  *)
(* of the source are operators; countMP3Frames is a state machine with one *)
(* action per straight-line piece of its body and one per loop iteration.  *)
(***************************************************************************)
EXTENDS Integers, Sequences, FiniteSets

VARIABLES file, buffer, pc, position, frameCount, endPosition, outcome, history,
          replies, probe, answer, iterations

vars ==
    <<file, buffer, pc, position, frameCount, endPosition, outcome, history,
      replies, probe, answer, iterations>>

(***************************************************************************)
(* JavaScript integer operators on the non-negative values that occur:     *)
(* bytes shifted by at most 21 bits, so every result is below 2^29 and the *)
(* 32-bit wrap-around of << never happens.                                 *)
(***************************************************************************)
RECURSIVE BitAnd(_, _)
BitAnd(a, b) ==
    IF a = 0 \/ b = 0 THEN 0
    ELSE (a % 2) * (b % 2) + 2 * BitAnd(a \div 2, b \div 2)

RECURSIVE BitOr(_, _)
BitOr(a, b) ==
    IF a = 0 THEN b
    ELSE IF b = 0 THEN a
    ELSE (IF a % 2 = 1 \/ b % 2 = 1 THEN 1 ELSE 0) + 2 * BitOr(a \div 2, b \div 2)

Shl(a, n) == a * (2 ^ n)

Shr(a, n) == a \div (2 ^ n)

(***************************************************************************)
(* Buffer primitives.                                                      *)
(***************************************************************************)
At(buf, i) == buf[i + 1]

Min(a, b) == IF a < b THEN a ELSE b

\* Buffer.alloc(n): n zero bytes.
Alloc(n) == [i \in 1..n |-> 0]

\* buf.toString('ascii', start, end): the bytes of [start, end) clipped to the
\* buffer, each with its highest bit unset before it becomes a character.
AsciiSlice(buf, start, end) ==
    LET stop == Min(end, Len(buf))
    IN  IF start >= stop THEN <<>>
        ELSE [i \in 1..(stop - start) |-> At(buf, start + i - 1) % 128]

\* buf.write(str, offset, 'ascii') / src.copy(buf, offset): the bytes of str
\* that fit are stored from offset on, each truncated to 8 bits.
WriteAt(buf, str, offset) ==
    [i \in 1..Len(buf) |->
        IF i - 1 >= offset /\ i - 1 < offset + Len(str)
        THEN str[i - offset] % 256
        ELSE buf[i]]

\* The character codes of the string literals of the source.
StrID3 == <<73, 68, 51>>
StrTAG == <<84, 65, 71>>
StrXing == <<88, 105, 110, 103>>
StrInfo == <<73, 110, 102, 111>>

(***************************************************************************)
(* types/mp3: lookup tables (index 0 of the source is index 1 here).       *)
(***************************************************************************)
\* The bitrate table with the entry of index 1 lost.
BitratesWithoutIndex1 ==
    <<0, 0, 40, 48, 56, 64, 80, 96, 112, 128, 160, 192, 224, 256, 320, 0>>

MPEG1_LAYER3_BITRATES ==
    <<0, 32, 40, 48, 56, 64, 80, 96, 112, 128, 160, 192, 224, 256, 320, 0>>

MPEG1_SAMPLE_RATES == <<44100, 48000, 32000, 0>>

(***************************************************************************)
(* utils/errors and the two ways a call ends.                              *)
(***************************************************************************)
NoOutcome == [kind |-> "none", error |-> "", message |-> "", frameCount |-> 0]

Return(n) == [kind |-> "return", error |-> "", message |-> "", frameCount |-> n]

Throw(err, msg) == [kind |-> "throw", error |-> err, message |-> msg, frameCount |-> 0]

MsgTooSmall == "File is too small or empty"
MsgTagSize == "Invalid ID3v2 tag size"
MsgNoFrames == "No valid MPEG Version 1 Audio Layer 3 frames found in file"
MsgParse == "Invalid bitrate or sample rate in frame header"
MsgVersion == "Unsupported MPEG version"
MsgLayer == "Unsupported MPEG layer"
MsgBitrate == "Invalid bitrate index"
MsgSampleRate == "Invalid sample rate index"

(***************************************************************************)
(* utils/id3.utils                                                         *)
(***************************************************************************)
hasID3v2Tag(buf) ==
    IF Len(buf) < 3 THEN FALSE
    ELSE AsciiSlice(buf, 0, 3) = StrID3

\* The decoded size without the 10 bytes of the tag header.
getID3v2SizeTagOnly(buf) ==
    IF Len(buf) < 10 THEN 0
    ELSE BitOr(BitOr(BitOr(Shl(At(buf, 6), 21), Shl(At(buf, 7), 14)),
                     Shl(At(buf, 8), 7)), At(buf, 9))

getID3v2Size(buf) ==
    IF Len(buf) < 10 THEN 0
    ELSE LET size == BitOr(BitOr(BitOr(Shl(At(buf, 6), 21), Shl(At(buf, 7), 14)),
                                 Shl(At(buf, 8), 7)), At(buf, 9))
         IN  10 + size

hasID3v1Tag(buf) ==
    IF Len(buf) < 128 THEN FALSE
    ELSE LET tagStart == Len(buf) - 128
         IN  AsciiSlice(buf, tagStart, tagStart + 3) = StrTAG

(***************************************************************************)
(* utils/frame-header.utils                                                *)
(***************************************************************************)
NoHeader == [present |-> FALSE, versionId |-> 0, layer |-> 0, bitrateIndex |-> 0,
             sampleRateIndex |-> 0, paddingBit |-> 0, hasCrc |-> FALSE,
             channelMode |-> 0]

\* The length check one byte too strict.
extractFrameHeaderStrictBound(buf, pos) ==
    IF pos + 4 >= Len(buf) THEN NoHeader
    ELSE LET b0 == At(buf, pos)
             b1 == At(buf, pos + 1)
             b2 == At(buf, pos + 2)
             b3 == At(buf, pos + 3)
         IN  IF b0 # 255 \/ BitAnd(b1, 224) # 224 THEN NoHeader
             ELSE [present |-> TRUE,
                   versionId |-> Shr(BitAnd(b1, 24), 3),
                   layer |-> Shr(BitAnd(b1, 6), 1),
                   bitrateIndex |-> Shr(BitAnd(b2, 240), 4),
                   sampleRateIndex |-> Shr(BitAnd(b2, 12), 2),
                   paddingBit |-> Shr(BitAnd(b2, 2), 1),
                   hasCrc |-> (BitAnd(b1, 1) = 0),
                   channelMode |-> Shr(BitAnd(b3, 192), 6)]

extractFrameHeader(buf, pos) ==
    IF pos + 4 > Len(buf) THEN NoHeader
    ELSE LET b0 == At(buf, pos)
             b1 == At(buf, pos + 1)
             b2 == At(buf, pos + 2)
             b3 == At(buf, pos + 3)
         IN  IF b0 # 255 \/ BitAnd(b1, 224) # 224 THEN NoHeader
             ELSE [present |-> TRUE,
                   versionId |-> Shr(BitAnd(b1, 24), 3),
                   layer |-> Shr(BitAnd(b1, 6), 1),
                   bitrateIndex |-> Shr(BitAnd(b2, 240), 4),
                   sampleRateIndex |-> Shr(BitAnd(b2, 12), 2),
                   paddingBit |-> Shr(BitAnd(b2, 2), 1),
                   hasCrc |-> (BitAnd(b1, 1) = 0),
                   channelMode |-> Shr(BitAnd(b3, 192), 6)]

\* The result is "ok" or the UnsupportedFormatError the source throws.
Ok == [kind |-> "ok", error |-> "", message |-> "", frameCount |-> 0]

\* validateFrameHeader with the layer checked before the version.
validateFrameHeaderLayerFirst(header) ==
    IF header.layer # 1 THEN Throw("UnsupportedFormatError", MsgLayer)
    ELSE IF header.versionId # 3 THEN Throw("UnsupportedFormatError", MsgVersion)
    ELSE IF header.bitrateIndex = 0 \/ header.bitrateIndex = 15
         THEN Throw("UnsupportedFormatError", MsgBitrate)
    ELSE IF header.sampleRateIndex = 3
         THEN Throw("UnsupportedFormatError", MsgSampleRate)
    ELSE Ok

\* validateFrameHeader without its layer check.
validateFrameHeaderAnyLayer(header) ==
    IF header.versionId # 3 THEN Throw("UnsupportedFormatError", MsgVersion)
    ELSE IF header.bitrateIndex = 0 \/ header.bitrateIndex = 15
         THEN Throw("UnsupportedFormatError", MsgBitrate)
    ELSE IF header.sampleRateIndex = 3
         THEN Throw("UnsupportedFormatError", MsgSampleRate)
    ELSE Ok

\* validateFrameHeader without its version check.
validateFrameHeaderAnyVersion(header) ==
    IF header.layer # 1 THEN Throw("UnsupportedFormatError", MsgLayer)
    ELSE IF header.bitrateIndex = 0 \/ header.bitrateIndex = 15
         THEN Throw("UnsupportedFormatError", MsgBitrate)
    ELSE IF header.sampleRateIndex = 3
         THEN Throw("UnsupportedFormatError", MsgSampleRate)
    ELSE Ok

validateFrameHeader(header) ==
    IF header.versionId # 3 THEN Throw("UnsupportedFormatError", MsgVersion)
    ELSE IF header.layer # 1 THEN Throw("UnsupportedFormatError", MsgLayer)
    ELSE IF header.bitrateIndex = 0 \/ header.bitrateIndex = 15
         THEN Throw("UnsupportedFormatError", MsgBitrate)
    ELSE IF header.sampleRateIndex = 3
         THEN Throw("UnsupportedFormatError", MsgSampleRate)
    ELSE Ok

(***************************************************************************)
(* utils/frame.utils                                                       *)
(***************************************************************************)
\* The quotient rounded up instead of down.
calculateFrameSizeRoundedUp(bitrate, sampleRate, padding) ==
    IF bitrate = 0 \/ sampleRate = 0 THEN [ok |-> FALSE, size |-> 0]
    ELSE [ok |-> TRUE,
          size |-> ((144 * bitrate * 1000 + sampleRate - 1) \div sampleRate)
                       + (IF padding THEN 1 ELSE 0)]

\* Half the frame size: 72 in place of 144.
calculateFrameSizeHalf(bitrate, sampleRate, padding) ==
    IF bitrate = 0 \/ sampleRate = 0 THEN [ok |-> FALSE, size |-> 0]
    ELSE [ok |-> TRUE,
          size |-> ((72 * bitrate * 1000) \div sampleRate) + (IF padding THEN 1 ELSE 0)]

\* The result is [ok, size]: ok = FALSE stands for the ParseError thrown.
calculateFrameSize(bitrate, sampleRate, padding) ==
    IF bitrate = 0 \/ sampleRate = 0 THEN [ok |-> FALSE, size |-> 0]
    ELSE [ok |-> TRUE,
          size |-> ((144 * bitrate * 1000) \div sampleRate) + (IF padding THEN 1 ELSE 0)]

isXingLameHeader(buf, pos, header, frameSize) ==
    LET sideInfoSize == IF header.channelMode = 3 THEN 17 ELSE 32
        crcSize == IF header.hasCrc THEN 2 ELSE 0
        identifierOffset == pos + 4 + crcSize + sideInfoSize
        frameEnd == pos + frameSize
    IN  IF identifierOffset + 4 > frameEnd THEN FALSE
        ELSE LET identifier == AsciiSlice(buf, identifierOffset, identifierOffset + 4)
             IN  identifier = StrXing \/ identifier = StrInfo

(***************************************************************************)
(* __tests__/test-utils/mp3-buffer-utils: how callers build their buffers. *)
(***************************************************************************)
createFrameHeader(header) ==
    <<255,
      BitOr(BitOr(BitOr(224, Shl(header.versionId, 3)), Shl(header.layer, 1)),
            IF header.hasCrc THEN 0 ELSE 1) % 256,
      BitOr(BitOr(Shl(header.bitrateIndex, 4), Shl(header.sampleRateIndex, 2)),
            Shl(header.paddingBit, 1)) % 256,
      Shl(header.channelMode, 6) % 256>>

createMP3Frame(header, frameSize) ==
    WriteAt(Alloc(frameSize), createFrameHeader(header), 0)

createID3v2Header(tagSize) ==
    <<73, 68, 51, 3, 0, 0,
      BitAnd(Shr(tagSize, 21), 127), BitAnd(Shr(tagSize, 14), 127),
      BitAnd(Shr(tagSize, 7), 127), BitAnd(tagSize, 127)>>

createID3v1Tag == WriteAt(Alloc(128), StrTAG, 0)

createDefaultFrameHeader ==
    [versionId |-> 3, layer |-> 1, bitrateIndex |-> 9, sampleRateIndex |-> 0,
     paddingBit |-> 0, hasCrc |-> FALSE, channelMode |-> 0]

(***************************************************************************)
(* The inputs.  A file is described by how it was put together: an         *)
(* optional ID3v2 tag, raw bytes, frames (each createMP3Frame(header,      *)
(* frameSize) with an optional byte string written at an offset), and an   *)
(* optional ID3v1 tag.                                                     *)
(***************************************************************************)
MaxFrames == 2
MaxCalls == 3
MaxRaw == 6

Prefix(s, n) == SubSeq(s, 1, Min(n, Len(s)))

\* 32 kbps, 48000 Hz, no padding, no CRC, stereo: 96 bytes.
Header96 ==
    [createDefaultFrameHeader EXCEPT !.bitrateIndex = 1, !.sampleRateIndex = 1]

\* 32 kbps, 44100 Hz, padded, CRC, mono: 105 bytes.
Header105 ==
    [createDefaultFrameHeader EXCEPT !.bitrateIndex = 1, !.paddingBit = 1,
                                     !.hasCrc = TRUE, !.channelMode = 3]

Frame(header, frameSize, mark, markAt) ==
    [header |-> header, frameSize |-> frameSize, mark |-> mark, markAt |-> markAt]

\* "Xing" with the highest bit of every byte set.
HighXing == <<216, 233, 238, 231>>

Plain96 == Frame(Header96, 96, <<>>, 0)
Plain105 == Frame(Header105, 105, <<>>, 0)
Xing96 == Frame(Header96, 96, StrXing, 36)
Info105 == Frame(Header105, 105, StrInfo, 23)
High96 == Frame(Header96, 96, HighXing, 36)
Tag96 == Frame(Header96, 96, StrTAG, 64)

StreamKinds == {Plain96, Plain105, Xing96, Info105, High96, Tag96}

\* Headers the validator rejects, one per constraint.
BadHeaders ==
    {[Header96 EXCEPT !.versionId = 2], [Header96 EXCEPT !.layer = 2],
     [Header96 EXCEPT !.bitrateIndex = 0], [Header96 EXCEPT !.bitrateIndex = 15],
     [Header96 EXCEPT !.sampleRateIndex = 3]}

NoLead == [present |-> FALSE, tagSize |-> 0, content |-> <<>>]
Lead(tagSize, content) == [present |-> TRUE, tagSize |-> tagSize, content |-> content]

Lead50 == Lead(50, Alloc(50))
Lead32Tag == Lead(32, WriteAt(Alloc(32), StrTAG, 0))
LeadHuge == Lead(1000000, Alloc(20))
LeadShort == Lead(21, Alloc(20))

NoTrail == [present |-> FALSE, mark |-> <<>>]
Trail(mark) == [present |-> TRUE, mark |-> mark]
TrailZero == Trail(<<>>)

File(lead, raw, frames, trail) ==
    [lead |-> lead, raw |-> raw, frames |-> frames, trail |-> trail]

NoFile == File(NoLead, <<>>, <<>>, NoTrail)

Streams == UNION {[1..n -> StreamKinds] : n \in 1..MaxFrames}

TaggedStreams ==
    {File(l, <<>>, s, t) : l \in {NoLead, Lead50, Lead32Tag}, s \in Streams,
                           t \in {NoTrail, TrailZero}}

RawBuffers ==
    {Alloc(n) : n \in 0..MaxRaw}
    \cup {Prefix(createID3v2Header(0), n) : n \in 1..9}
    \cup {Prefix(createMP3Frame(Header96, 96), n) : n \in {3, 4, 8, 40}}
    \cup {createMP3Frame([Header96 EXCEPT !.layer = 2], 96),
          createMP3Frame([Header96 EXCEPT !.versionId = 2], 96)}

RawFiles == {File(NoLead, r, <<>>, NoTrail) : r \in RawBuffers}

JunkPrefixes ==
    {<<0>>, <<255>>, <<255, 224, 0, 0>>} \cup {createFrameHeader(h) : h \in BadHeaders}

JunkFiles ==
    {File(NoLead, j, <<Plain96>>, t) : j \in JunkPrefixes, t \in {NoTrail, TrailZero}}
    \cup {File(NoLead, j, s, NoTrail) :
              j \in JunkPrefixes, s \in {<<High96>>, <<Plain96, Plain105>>}}

BadTagFiles ==
    {File(l, <<>>, s, NoTrail) : l \in {Lead50, LeadHuge, LeadShort},
                                 s \in {<<>>, <<Plain96>>}}

Files == TaggedStreams \cup RawFiles \cup JunkFiles \cup BadTagFiles

RECURSIVE Concat(_)
Concat(parts) == IF parts = <<>> THEN <<>> ELSE Head(parts) \o Concat(Tail(parts))

FrameBytes(fd) == WriteAt(createMP3Frame(fd.header, fd.frameSize), fd.mark, fd.markAt)

LeadBytes(l) == IF l.present THEN createID3v2Header(l.tagSize) \o l.content ELSE <<>>

TrailBytes(t) == IF t.present THEN WriteAt(createID3v1Tag, t.mark, 3) ELSE <<>>

Build(f) ==
    LeadBytes(f.lead) \o f.raw
        \o Concat([i \in 1..Len(f.frames) |-> FrameBytes(f.frames[i])])
        \o TrailBytes(f.trail)

(***************************************************************************)
(* services/files.service: countMP3Frames.                                 *)
(***************************************************************************)
\* The size guard one byte too lax.
TooSmallBelow3(buf) == Len(buf) < 3

\* Line 69: the size guard.
TooSmall(buf) == Len(buf) < 4

\* A counter kept across calls instead of a local one.
FreshFrameCountKept(old) == old

\* Line 73: the counter every call starts from (old is the value the
\* previous call left behind).
FreshFrameCount(old) == 0

\* No tag-size guard at all.
TagExceedsNever(pos, buf) == FALSE

\* The tag-size guard rejecting a tag that fills the buffer exactly.
TagExceedsOrFills(pos, buf) == pos >= Len(buf)

\* Line 78: the leading tag does not fit in the buffer.
TagExceeds(pos, buf) == pos > Len(buf)

\* A loop that goes on up to the last byte of the scan range.
InLoopToEnd(pos, endPos) == pos < endPos

\* Line 86: the loop condition.
InLoop(pos, endPos) == pos < endPos - 4

\* What one loop iteration does: the cursor advance, the count increment,
\* or the error that leaves the function.
\* A skipped byte that leaves the cursor where it is.
SkipByteStay == [step |-> "SkipByte", advance |-> 0, counted |-> 0, error |-> NoOutcome]
SkipByte == [step |-> "SkipByte", advance |-> 1, counted |-> 0, error |-> NoOutcome]
SkipFrame(n) == [step |-> "SkipFrame", advance |-> n, counted |-> 0, error |-> NoOutcome]
\* A frame counted while the cursor moves on by one byte only.
EmitFrameInPlace(n) == [step |-> "EmitFrame", advance |-> 1, counted |-> 1, error |-> NoOutcome]
\* A frame counted twice.
EmitFrameTwice(n) == [step |-> "EmitFrame", advance |-> n, counted |-> 2, error |-> NoOutcome]
EmitFrame(n) == [step |-> "EmitFrame", advance |-> n, counted |-> 1, error |-> NoOutcome]
Escape(err) == [step |-> "Throw", advance |-> 0, counted |-> 0, error |-> err]

\* A catch block that lets the validation error through.
OnValidationErrorRethrow(err) == Escape(err)

\* Lines 94-100: the catch block around validateFrameHeader.
OnValidationError(err) == SkipByte

\* The loop body without the check that the frame ends inside the buffer.
LoopBodyNoFitCheck(buf, pos) ==
    IF At(buf, pos) = 255 /\ BitAnd(At(buf, pos + 1), 224) = 224
    THEN LET header == extractFrameHeader(buf, pos)
         IN  IF header.present
             THEN LET checked == validateFrameHeader(header)
                      bitrate == MPEG1_LAYER3_BITRATES[header.bitrateIndex + 1]
                      sampleRate == MPEG1_SAMPLE_RATES[header.sampleRateIndex + 1]
                      sized == calculateFrameSize(bitrate, sampleRate,
                                                  header.paddingBit = 1)
                      frameSize == sized.size
                  IN  IF checked.kind = "throw" THEN OnValidationError(checked)
                      ELSE IF bitrate = 0 \/ sampleRate = 0 THEN SkipByte
                      ELSE IF ~sized.ok THEN Escape(Throw("ParseError", MsgParse))
                      ELSE IF frameSize <= 0 THEN SkipByte
                      ELSE IF isXingLameHeader(buf, pos, header, frameSize)
                           THEN SkipFrame(frameSize)
                      ELSE EmitFrame(frameSize)
             ELSE SkipByte
    ELSE SkipByte

\* Lines 88-146: the loop body at cursor pos.
LoopBody(buf, pos) ==
    IF At(buf, pos) = 255 /\ BitAnd(At(buf, pos + 1), 224) = 224
    THEN LET header == extractFrameHeader(buf, pos)
         IN  IF header.present
             THEN LET checked == validateFrameHeader(header)
                      bitrate == MPEG1_LAYER3_BITRATES[header.bitrateIndex + 1]
                      sampleRate == MPEG1_SAMPLE_RATES[header.sampleRateIndex + 1]
                      sized == calculateFrameSize(bitrate, sampleRate,
                                                  header.paddingBit = 1)
                      frameSize == sized.size
                  IN  IF checked.kind = "throw" THEN OnValidationError(checked)
                      ELSE IF bitrate = 0 \/ sampleRate = 0 THEN SkipByte
                      ELSE IF ~sized.ok THEN Escape(Throw("ParseError", MsgParse))
                      ELSE IF frameSize <= 0 \/ pos + frameSize > Len(buf)
                           THEN SkipByte
                      ELSE IF isXingLameHeader(buf, pos, header, frameSize)
                           THEN SkipFrame(frameSize)
                      ELSE EmitFrame(frameSize)
             ELSE SkipByte
    ELSE SkipByte

\* A result that is never below one frame.
ExitOutcomeAtLeastOne(count) == Return(IF count = 0 THEN 1 ELSE count)

\* The indices buf.toString('ascii', start, end) reads: the range clipped to
\* the buffer.
SliceReads(buf, start, end) == start..(Min(end, Len(buf)) - 1)

\* Lines 76-83: the indices read while the tags are looked for.
TagReads(buf) ==
    (IF Len(buf) < 3 THEN {} ELSE SliceReads(buf, 0, 3))
    \cup (IF hasID3v2Tag(buf) /\ Len(buf) >= 10 THEN 6..9 ELSE {})
    \cup (IF Len(buf) < 128 THEN {}
          ELSE SliceReads(buf, Len(buf) - 128, Len(buf) - 128 + 3))

\* Lines 88-134: the indices one iteration at cursor pos reads.  The second
\* sync byte is read only behind a first byte 0xFF, the header bytes only
\* when four of them are left, the identifier only for a frame that fits.
LoopReads(buf, pos) ==
    {pos}
    \cup (IF At(buf, pos) = 255 THEN {pos + 1} ELSE {})
    \cup (IF At(buf, pos) = 255 /\ pos + 4 <= Len(buf)
               /\ BitAnd(At(buf, pos + 1), 224) = 224
          THEN (pos..(pos + 3))
               \cup LET header == extractFrameHeader(buf, pos)
                        bitrate == MPEG1_LAYER3_BITRATES[header.bitrateIndex + 1]
                        sampleRate == MPEG1_SAMPLE_RATES[header.sampleRateIndex + 1]
                        sized == calculateFrameSize(bitrate, sampleRate,
                                                    header.paddingBit = 1)
                        identifierOffset ==
                            pos + 4 + (IF header.hasCrc THEN 2 ELSE 0)
                                + (IF header.channelMode = 3 THEN 17 ELSE 32)
                    IN  IF /\ validateFrameHeader(header).kind = "ok"
                           /\ sized.ok
                           /\ sized.size > 0
                           /\ pos + sized.size <= Len(buf)
                           /\ identifierOffset + 4 <= pos + sized.size
                        THEN SliceReads(buf, identifierOffset, identifierOffset + 4)
                        ELSE {}
          ELSE {})

\* The result without the zero-count check.
ExitOutcomeUnchecked(count) == Return(count)

\* Lines 149-154: the result once the loop has ended.
ExitOutcome(count) ==
    IF count = 0 THEN Throw("InvalidFileError", MsgNoFrames) ELSE Return(count)

(***************************************************************************)
(* The caller: it hands over one buffer per call and receives the outcome. *)
(* After a first file, it uploads the same file again, the same file with  *)
(* a tag removed, or an unrelated file.                                    *)
(***************************************************************************)
(***************************************************************************)
(* controllers/files.controller: uploadFile.  What one request leaves      *)
(* behind: the responses sent on res and the errors handed to next.        *)
(***************************************************************************)
MsgNoUpload == "No file uploaded. Please provide an MP3 file."

Json(status, body) == [status |-> status, body |-> body]

Sent(responses, forwarded) == [responses |-> responses, forwarded |-> forwarded]

uploadFileNoFile == Sent(<<Json(400, [error |-> MsgNoUpload])>>, <<>>)

\* The catch block answers as well as forwarding.
uploadFileResultAnswersErrors(result) ==
    IF result.kind = "return"
    THEN Sent(<<Json(200, [frameCount |-> result.frameCount])>>, <<>>)
    ELSE Sent(<<Json(500, [error |-> result.message])>>, <<result>>)
uploadFileResult(result) ==
    IF result.kind = "return"
    THEN Sent(<<Json(200, [frameCount |-> result.frameCount])>>, <<>>)
    ELSE Sent(<<>>, <<result>>)

Reply(hasFile, upload, sent) ==
    [hasFile |-> hasFile, upload |-> upload,
     responses |-> sent.responses, forwarded |-> sent.forwarded]

\* No function of the source is being applied on its own.
NoProbe == [fn |-> "none"]
NoAnswer == [fn |-> "none"]

OtherFiles == {File(NoLead, <<>>, <<Plain105>>, NoTrail)}

Related(f) == {f, [f EXCEPT !.lead = NoLead], [f EXCEPT !.trail = NoTrail]}

NextFiles ==
    IF history = <<>> THEN Files
    ELSE OtherFiles \cup UNION {Related(history[i].file) : i \in DOMAIN history}

Init ==
    /\ file = NoFile
    /\ buffer = <<>>
    /\ pc = "idle"
    /\ position = 0
    /\ frameCount = 0
    /\ endPosition = 0
    /\ outcome = NoOutcome
    /\ history = <<>>
    /\ replies = <<>>
    /\ probe = NoProbe
    /\ answer = NoAnswer
    /\ iterations = 0

\* controllers/files.controller, lines 18-31 with req.file present.
Call(f) ==
    /\ pc = "idle"
    /\ Len(replies) < MaxCalls
    /\ file' = f
    /\ buffer' = Build(f)
    /\ pc' = "entry"
    /\ outcome' = NoOutcome
    /\ UNCHANGED <<position, frameCount, endPosition, history>>
    /\ UNCHANGED <<replies, probe, answer, iterations>>

\* Lines 69-73.
CheckSize ==
    /\ pc = "entry"
    /\ IF TooSmall(buffer)
       THEN /\ outcome' = Throw("InvalidFileError", MsgTooSmall)
            /\ pc' = "done"
            /\ UNCHANGED <<position, frameCount>>
       ELSE /\ position' = 0
            /\ frameCount' = FreshFrameCount(frameCount)
            /\ pc' = "tags"
            /\ UNCHANGED outcome
    /\ UNCHANGED <<file, buffer, endPosition, history>>
    /\ iterations' = 0
    /\ UNCHANGED <<replies, probe, answer>>

\* Lines 75-83.
SkipTags ==
    /\ pc = "tags"
    /\ position' = IF hasID3v2Tag(buffer) THEN getID3v2Size(buffer) ELSE position
    /\ IF hasID3v2Tag(buffer) /\ TagExceeds(position', buffer)
       THEN /\ outcome' = Throw("InvalidFileError", MsgTagSize)
            /\ pc' = "done"
            /\ UNCHANGED endPosition
       ELSE /\ endPosition' = IF hasID3v1Tag(buffer) THEN Len(buffer) - 128
                                                     ELSE Len(buffer)
            /\ pc' = "loop"
            /\ UNCHANGED outcome
    /\ UNCHANGED <<file, buffer, frameCount, history>>
    /\ UNCHANGED <<replies, probe, answer, iterations>>

\* Lines 86-147: one iteration of the loop.
Iterate ==
    /\ pc = "loop"
    /\ InLoop(position, endPosition)
    /\ LET r == LoopBody(buffer, position)
       IN  IF r.step = "Throw"
           THEN /\ outcome' = r.error
                /\ pc' = "done"
                /\ UNCHANGED <<position, frameCount>>
           ELSE /\ position' = position + r.advance
                /\ frameCount' = frameCount + r.counted
                /\ UNCHANGED <<pc, outcome>>
    /\ UNCHANGED <<file, buffer, endPosition, history>>
    /\ iterations' = iterations + 1
    /\ UNCHANGED <<replies, probe, answer>>

\* Line 86, condition false: the loop ends.
LeaveLoop ==
    /\ pc = "loop"
    /\ ~InLoop(position, endPosition)
    /\ pc' = "exit"
    /\ UNCHANGED <<file, buffer, position, frameCount, endPosition, outcome, history>>
    /\ UNCHANGED <<replies, probe, answer, iterations>>

\* Lines 149-154.
Finish ==
    /\ pc = "exit"
    /\ outcome' = ExitOutcome(frameCount)
    /\ pc' = "done"
    /\ UNCHANGED <<file, buffer, position, frameCount, endPosition, history>>
    /\ UNCHANGED <<replies, probe, answer, iterations>>

\* The caller receives the outcome: controllers/files.controller, lines 31-39.
Deliver ==
    /\ pc = "done"
    /\ history' = Append(history, [file |-> file, outcome |-> outcome])
    /\ replies' = Append(replies, Reply(TRUE, file, uploadFileResult(outcome)))
    /\ pc' = "idle"
    /\ UNCHANGED <<file, buffer, position, frameCount, endPosition, outcome>>
    /\ UNCHANGED <<probe, answer, iterations>>

\* controllers/files.controller, lines 20-25: a request without a file.
RejectUpload ==
    /\ pc = "idle"
    /\ Len(replies) < MaxCalls
    /\ replies' = Append(replies, Reply(FALSE, NoFile, uploadFileNoFile))
    /\ UNCHANGED <<file, buffer, pc, position, frameCount, endPosition, outcome>>
    /\ UNCHANGED <<history, probe, answer, iterations>>

Next ==
    \/ \E f \in NextFiles : Call(f)
    \/ CheckSize
    \/ SkipTags
    \/ Iterate
    \/ LeaveLoop
    \/ Finish
    \/ Deliver
    \/ RejectUpload

Spec == Init /\ [][Next]_vars

(***************************************************************************)
(* One call of countMP3Frames on its own: SpecScan starts at the entry of  *)
(* the function with any of the buffers below and runs it to its end.      *)
(***************************************************************************)
\* A frame cut short, alone or behind a whole frame, with or without a
\* trailing tag behind it.
TruncatedFiles ==
    {File(NoLead, head \o Prefix(FrameBytes(Plain105), n), <<>>, t) :
        head \in {<<>>, FrameBytes(Plain96)}, n \in {50, 104},
        t \in {NoTrail, TrailZero}}

\* One whole frame for every supported bitrate, sample rate and padding, with
\* and without CRC.
EveryRateFiles ==
    {File(NoLead, <<>>,
          <<Frame([createDefaultFrameHeader EXCEPT !.bitrateIndex = h[1],
                                                   !.sampleRateIndex = h[2],
                                                   !.paddingBit = h[3],
                                                   !.hasCrc = h[4]],
                  calculateFrameSize(MPEG1_LAYER3_BITRATES[h[1] + 1],
                                     MPEG1_SAMPLE_RATES[h[2] + 1], h[3] = 1).size,
                  <<>>, 0)>>,
          NoTrail) : h \in (1..14) \X (0..2) \X (0..1) \X BOOLEAN}

\* "ID3" followed by fewer than 7 other bytes, a frame header among them.
ShortTagFiles ==
    {File(NoLead, StrID3 \o Prefix(createFrameHeader(Header96) \o <<0, 0>>, n),
          <<>>, NoTrail) : n \in 1..6}

\* Buffers that end in the bytes a sync word begins with.
EndSyncFiles ==
    {File(NoLead, r, <<>>, NoTrail) :
        r \in {Alloc(4) \o <<255>>, Alloc(3) \o <<255, 251>>,
               FrameBytes(Plain96) \o <<255, 251, 20>>}}

ScanFiles ==
    Files \cup TruncatedFiles \cup EveryRateFiles \cup ShortTagFiles \cup EndSyncFiles

InitScan ==
    /\ file \in ScanFiles
    /\ buffer = Build(file)
    /\ pc = "entry"
    /\ position = 0
    /\ frameCount = 0
    /\ endPosition = 0
    /\ outcome = NoOutcome
    /\ history = <<>>
    /\ replies = <<>>
    /\ probe = NoProbe
    /\ answer = NoAnswer
    /\ iterations = 0

NextScan ==
    \/ CheckSize
    \/ SkipTags
    \/ Iterate
    \/ LeaveLoop
    \/ Finish

SpecScan == InitScan /\ [][NextScan]_vars

\* The function runs on: no step of it is postponed for ever.
SpecScanFair == SpecScan /\ WF_vars(NextScan)

(***************************************************************************)
(* middlewares/files.middleware: filesErrorHandler.  An error is described *)
(* by its class (what instanceof sees), its name, its code and its         *)
(* message; the result is the sequence of responses sent on res.           *)
(***************************************************************************)
MsgInvalidDefault == "Invalid or corrupted file"
MsgUnsupportedDefault ==
    "File must be MPEG Version 1 Audio Layer 3. Other MPEG formats are not supported."
MsgParseDefault == "Failed to parse MP3 file"
MsgFilter == "Only MP3 files are allowed"
MsgFileType == "Invalid file type. Only MP3 files are allowed."
MsgTooLarge == "File is too large. Maximum size is 25MB."
MsgUnexpectedField == "Unexpected file field. Only one file is allowed at a time."
MsgInternal == "Internal server error"

Error(class, name, code, message) ==
    [class |-> class, name |-> name, code |-> code, message |-> message]

\* The class check without ParseError.
filesErrorHandlerTwoClasses(err) ==
    IF err.class = "MulterError" \/ err.name = "MulterError"
    THEN IF err.code = "LIMIT_FILE_SIZE"
         THEN <<Json(400, [error |-> MsgTooLarge])>>
         ELSE IF err.code = "LIMIT_UNEXPECTED_FILE"
              THEN <<Json(400, [error |-> MsgUnexpectedField])>>
         ELSE <<Json(400, [error |-> <<"File upload error: ", err.message>>])>>
    ELSE IF err.message = MsgFilter
         THEN <<Json(400, [error |-> MsgFileType])>>
    ELSE IF err.class \in {"InvalidFileError", "UnsupportedFormatError"}
         THEN <<Json(400, [error |-> err.message])>>
    ELSE <<Json(500, [error |-> MsgInternal])>>

filesErrorHandler(err) ==
    IF err.class = "MulterError" \/ err.name = "MulterError"
    THEN IF err.code = "LIMIT_FILE_SIZE"
         THEN <<Json(400, [error |-> MsgTooLarge])>>
         ELSE IF err.code = "LIMIT_UNEXPECTED_FILE"
              THEN <<Json(400, [error |-> MsgUnexpectedField])>>
         ELSE <<Json(400, [error |-> <<"File upload error: ", err.message>>])>>
    ELSE IF err.message = MsgFilter
         THEN <<Json(400, [error |-> MsgFileType])>>
    ELSE IF err.class \in {"InvalidFileError", "UnsupportedFormatError", "ParseError"}
         THEN <<Json(400, [error |-> err.message])>>
    ELSE <<Json(500, [error |-> MsgInternal])>>

\* The errors of the three classes as the source constructs them: the name
\* is set by the constructor, the message is the default one or the one of
\* a throw site.  (No throw site gives such an error the message of the
\* file filter; the branch for that message comes before the class check.)
CustomErrors ==
    {Error("InvalidFileError", "InvalidFileError", "", m) :
        m \in {MsgInvalidDefault, MsgTooSmall, MsgTagSize, MsgNoFrames}}
    \cup {Error("UnsupportedFormatError", "UnsupportedFormatError", "", m) :
              m \in {MsgUnsupportedDefault, MsgVersion, MsgLayer, MsgBitrate,
                     MsgSampleRate}}
    \cup {Error("ParseError", "ParseError", "", m) : m \in {MsgParseDefault, MsgParse}}

\* Errors of multer, by class or by name only, and of the file filter.
UploadErrors ==
    {Error(c, "MulterError", code, m) :
        c \in {"MulterError", "Error"},
        code \in {"LIMIT_FILE_SIZE", "LIMIT_UNEXPECTED_FILE", "LIMIT_PART_COUNT"},
        m \in {"File too large", "Unexpected field", MsgFilter}}
    \cup {Error("Error", "Error", "", MsgFilter)}

\* Anything else, a plain Error with the message of a custom one included.
OtherErrors ==
    {Error(c, c, code, m) :
        c \in {"Error", "TypeError"}, code \in {"", "LIMIT_FILE_SIZE"},
        m \in {"", "boom", MsgTooSmall, MsgInternal}}

(***************************************************************************)
(* The helpers on their own.  A probe is one call of one helper with its   *)
(* arguments; the answer is what the helper gives back.  Each behaviour of *)
(* SpecUnit applies one helper to one probe.                               *)
(***************************************************************************)
Answer(value) == [fn |-> probe.fn, value |-> value]

Bitrates == {MPEG1_LAYER3_BITRATES[i] : i \in DOMAIN MPEG1_LAYER3_BITRATES} \cup {1, 500}
SampleRates == {MPEG1_SAMPLE_RATES[i] : i \in DOMAIN MPEG1_SAMPLE_RATES} \cup {1, 22050}

FrameSizeProbes ==
    {[fn |-> "calculateFrameSize", bitrate |-> b, sampleRate |-> r, padding |-> p] :
        b \in Bitrates, r \in SampleRates, p \in BOOLEAN}

\* Every header the 2 + 2 + 4 + 2 bits of version, layer, bitrate index and
\* sample-rate index can hold.
ValidateProbes ==
    {[fn |-> "validateFrameHeader",
      header |-> [createDefaultFrameHeader EXCEPT !.versionId = v, !.layer = l,
                                                  !.bitrateIndex = b,
                                                  !.sampleRateIndex = r]] :
        v \in 0..3, l \in 0..3, b \in 0..15, r \in 0..3}

\* Every header the bit fields can hold, encoded by createFrameHeader.
FrameHeaders ==
    [versionId : 0..3, layer : 0..3, bitrateIndex : 0..15, sampleRateIndex : 0..3,
     paddingBit : 0..1, hasCrc : BOOLEAN, channelMode : 0..3]

EncodedHeaderProbes ==
    {[fn |-> "extractFrameHeader", buffer |-> createFrameHeader(h), position |-> 0,
      encoded |-> TRUE, header |-> h] : h \in FrameHeaders}

\* Other bytes, whole or cut short, read at the first offsets.
HeaderBytes ==
    {<<b0, b1, b2, b3>> : b0 \in {0, 254, 255}, b1 \in {0, 31, 192, 223, 224, 251, 255},
                          b2 \in {0, 144, 255}, b3 \in {0, 192, 255}}

RawHeaderProbes ==
    {[fn |-> "extractFrameHeader", buffer |-> Prefix(pre \o b, n), position |-> p,
      encoded |-> FALSE, header |-> createDefaultFrameHeader] :
        pre \in {<<>>, <<0>>}, b \in HeaderBytes, n \in 0..5, p \in 0..2}

\* Frames with and without an identifier, read whole or with a shorter
\* frame size, at the start of the buffer or one byte in.
XingFrames ==
    StreamKinds \cup {Frame(Header96, 96, StrXing, 35), Frame(Header105, 105, StrXing, 36)}

XingProbes ==
    {[fn |-> "isXingLameHeader", buffer |-> pre \o FrameBytes(fd), position |-> Len(pre),
      header |-> fd.header, frameSize |-> n] :
        fd \in XingFrames, pre \in {<<>>, <<0>>},
        n \in {20, 26, 27, 39, 40, 96, 105}}

\* Tag sizes below 2^28 by their four 7-bit digits; the header alone or
\* followed by fewer bytes than it declares.
TagSizes ==
    {d3 * 2097152 + d2 * 16384 + d1 * 128 + d0 :
        d3 \in {0, 1, 64, 127}, d2 \in {0, 1, 64, 127},
        d1 \in {0, 1, 64, 127}, d0 \in {0, 1, 64, 127}}

EncodedSizeProbes ==
    {[fn |-> "getID3v2Size", buffer |-> createID3v2Header(sz) \o Alloc(n),
      encoded |-> TRUE, tagSize |-> sz] : sz \in TagSizes, n \in {0, 5}}

\* Size bytes with the top bit set, and buffers shorter than a tag header.
RawSizeProbes ==
    {[fn |-> "getID3v2Size", buffer |-> Prefix(<<73, 68, 51, 3, 0, 0, b6, b7, b8, b9>>, n),
      encoded |-> FALSE, tagSize |-> 0] :
        b6 \in {0, 128, 255}, b7 \in {0, 128, 255}, b8 \in {0, 128, 255},
        b9 \in {0, 128, 255}, n \in {0, 5, 9, 10}}

\* "TAG" with the highest bit of every byte set.
HighTAG == <<212, 193, 199>>

\* Buffers around 128 bytes with a 3-byte mark at the start, at
\* length - 128 or elsewhere.
TagProbes ==
    {[fn |-> "hasID3v1Tag", buffer |-> WriteAt(Alloc(n), mark, at)] :
        n \in {3, 127, 128, 129, 200}, mark \in {<<>>, StrTAG, StrID3, HighTAG},
        at \in {0, 1, 72, 125}}

ErrorProbes ==
    {[fn |-> "filesErrorHandler", err |-> x] :
        x \in CustomErrors \cup UploadErrors \cup OtherErrors}

Probes ==
    FrameSizeProbes
    \cup ValidateProbes
    \cup EncodedHeaderProbes \cup RawHeaderProbes
    \cup XingProbes
    \cup EncodedSizeProbes \cup RawSizeProbes
    \cup TagProbes
    \cup ErrorProbes

InitUnit ==
    /\ file = NoFile
    /\ buffer = <<>>
    /\ pc = "unit"
    /\ position = 0
    /\ frameCount = 0
    /\ endPosition = 0
    /\ outcome = NoOutcome
    /\ history = <<>>
    /\ replies = <<>>
    /\ probe \in Probes
    /\ answer = NoAnswer
    /\ iterations = 0

Apply(fn, value) ==
    /\ pc = "unit"
    /\ probe.fn = fn
    /\ answer = NoAnswer
    /\ answer' = Answer(value)
    /\ UNCHANGED <<file, buffer, pc, position, frameCount, endPosition, outcome>>
    /\ UNCHANGED <<history, replies, probe, iterations>>

ApplyCalculateFrameSize ==
    /\ probe.fn = "calculateFrameSize"
    /\ Apply("calculateFrameSize",
             calculateFrameSize(probe.bitrate, probe.sampleRate, probe.padding))

ApplyValidateFrameHeader ==
    /\ probe.fn = "validateFrameHeader"
    /\ Apply("validateFrameHeader", validateFrameHeader(probe.header))

ApplyExtractFrameHeader ==
    /\ probe.fn = "extractFrameHeader"
    /\ Apply("extractFrameHeader", extractFrameHeader(probe.buffer, probe.position))

ApplyIsXingLameHeader ==
    /\ probe.fn = "isXingLameHeader"
    /\ Apply("isXingLameHeader",
             isXingLameHeader(probe.buffer, probe.position, probe.header,
                              probe.frameSize))

ApplyGetID3v2Size ==
    /\ probe.fn = "getID3v2Size"
    /\ Apply("getID3v2Size", getID3v2Size(probe.buffer))

ApplyHasID3v1Tag ==
    /\ probe.fn = "hasID3v1Tag"
    /\ Apply("hasID3v1Tag", hasID3v1Tag(probe.buffer))

ApplyFilesErrorHandler ==
    /\ probe.fn = "filesErrorHandler"
    /\ Apply("filesErrorHandler", filesErrorHandler(probe.err))

NextUnit ==
    \/ ApplyCalculateFrameSize
    \/ ApplyValidateFrameHeader
    \/ ApplyExtractFrameHeader
    \/ ApplyIsXingLameHeader
    \/ ApplyGetID3v2Size
    \/ ApplyHasID3v1Tag
    \/ ApplyFilesErrorHandler

SpecUnit == InitUnit /\ [][NextUnit]_vars

(***************************************************************************)
(* Vocabulary of the properties.  These predicates look at the bytes and   *)
(* at the way the file was put together; they use none of the parser's     *)
(* operators.                                                              *)
(***************************************************************************)
\* The bytes of buf from offset off on are exactly the codes of str.
LiteralAt(buf, off, str) ==
    /\ off >= 0
    /\ off + Len(str) <= Len(buf)
    /\ \A k \in 1..Len(str) : buf[off + k] = str[k]

\* A frame that starts with a supported header and is as long as the
\* frame-size formula says; what is written into it leaves the header alone.
WellFormedFrame(fd) ==
    /\ fd.header.versionId = 3
    /\ fd.header.layer = 1
    /\ fd.header.bitrateIndex \in 1..14
    /\ fd.header.sampleRateIndex \in 0..2
    /\ fd.frameSize =
         ((144 * MPEG1_LAYER3_BITRATES[fd.header.bitrateIndex + 1] * 1000)
             \div MPEG1_SAMPLE_RATES[fd.header.sampleRateIndex + 1])
         + fd.header.paddingBit
    /\ (fd.mark = <<>> \/ fd.markAt >= 4)

\* The frame carries the identifier "Xing" or "Info" after its side info.
CarriesIdentifier(fd) ==
    LET off == 4 + (IF fd.header.hasCrc THEN 2 ELSE 0)
                 + (IF fd.header.channelMode = 3 THEN 17 ELSE 32)
    IN  \/ LiteralAt(FrameBytes(fd), off, StrXing)
        \/ LiteralAt(FrameBytes(fd), off, StrInfo)

AllWellFormed(f) ==
    /\ f.frames # <<>>
    /\ \A i \in DOMAIN f.frames : WellFormedFrame(f.frames[i])

NoneAuxiliary(f) == \A i \in DOMAIN f.frames : ~CarriesIdentifier(f.frames[i])

\* Nothing but frames: no tag, no other bytes.
FramesOnly(f) == ~f.lead.present /\ f.raw = <<>> /\ ~f.trail.present

\* The last 128 bytes do not begin with "TAG".
NoTrailerSignature(buf) ==
    ~(Len(buf) >= 128 /\ LiteralAt(buf, Len(buf) - 128, StrTAG))

\* An N-frame buffer: N >= 1 well-formed frames, none auxiliary, no tag.
FrameBuffer(f) ==
    /\ FramesOnly(f)
    /\ AllWellFormed(f)
    /\ NoneAuxiliary(f)
    /\ NoTrailerSignature(Build(f))

\* A leading tag whose content is as long as its header declares.
ValidLead(l) == l.present /\ Len(l.content) = l.tagSize

InvalidFile(msg) == Throw("InvalidFileError", msg)

(***************************************************************************)
(* C1.  A buffer of exactly N >= 1 concatenated well-formed frames, none   *)
(* auxiliary, with no leading and no trailing tag, is counted as N.        *)
(***************************************************************************)
C1_CountsEveryFrame ==
    (pc = "done" /\ FrameBuffer(file)) => outcome = Return(Len(file.frames))

(***************************************************************************)
(* C2.  Prepending a leading tag (a 10-byte "ID3" header declaring the     *)
(* size of the content that follows it) to an N-frame buffer leaves the    *)
(* outcome of the count unchanged.                                         *)
(***************************************************************************)
C2_LeadingTagKeepsCount ==
    \A i, j \in DOMAIN history :
        LET b == history[i].file
            tb == history[j].file
        IN  (FrameBuffer(b) /\ ValidLead(tb.lead) /\ tb = [b EXCEPT !.lead = tb.lead])
                => history[j].outcome = history[i].outcome

(***************************************************************************)
(* C3.  Appending a 128-byte block that begins with "TAG" to an N-frame    *)
(* buffer, with or without a leading tag, leaves the outcome of the count  *)
(* unchanged.                                                              *)
(***************************************************************************)
C3_TrailingTagKeepsCount ==
    \A i, j \in DOMAIN history :
        LET b == history[i].file
            bg == history[j].file
        IN  (/\ FrameBuffer([b EXCEPT !.lead = NoLead])
             /\ (b.lead.present => ValidLead(b.lead))
             /\ bg.trail.present
             /\ bg = [b EXCEPT !.trail = bg.trail])
                => history[j].outcome = history[i].outcome

(***************************************************************************)
(* C4.  In a stream of concatenated well-formed frames the frames that     *)
(* carry "Xing" or "Info" at the identifier offset are left out wherever   *)
(* they stand, so that at the end of the loop frameCount is the number of  *)
(* frames that do not carry the identifier.                                *)
(***************************************************************************)
C4_CountsNonAuxiliaryFrames ==
    (pc = "exit" /\ FramesOnly(file) /\ AllWellFormed(file)
                 /\ NoTrailerSignature(buffer))
        => frameCount =
             Cardinality({i \in DOMAIN file.frames : ~CarriesIdentifier(file.frames[i])})

(***************************************************************************)
(* C5.  A buffer shorter than 4 bytes, whatever it holds, fails with       *)
(* InvalidFile 'File is too small or empty'; tag detection and the scan    *)
(* are reached only by buffers of at least 4 bytes.                        *)
(***************************************************************************)
C5_TooSmallFailsFirst ==
    /\ pc \in {"tags", "loop", "exit"} => Len(buffer) >= 4
    /\ (pc = "done" /\ Len(buffer) < 4) => outcome = InvalidFile(MsgTooSmall)

\* A 3-byte buffer "ID3" has been rejected as too small.
C5_Witness ==
    pc = "done" /\ buffer = StrID3 /\ outcome = InvalidFile(MsgTooSmall)

(***************************************************************************)
(* C6.  When the loop ends with frameCount = 0 the call fails with         *)
(* InvalidFile 'No valid MPEG Version 1 Audio Layer 3 frames found'; a     *)
(* returned count is never 0.                                              *)
(***************************************************************************)
C6_ZeroFramesIsAnError ==
    /\ [][(pc = "exit" /\ frameCount = 0) => outcome' = InvalidFile(MsgNoFrames)]_vars
    /\ [](outcome.kind = "return" => outcome.frameCount >= 1)
    /\ [](\A i \in DOMAIN history :
             history[i].outcome.kind = "return" => history[i].outcome.frameCount >= 1)

\* An all-zero buffer of 6 bytes has been scanned and rejected.
C6_Witness ==
    /\ pc = "done"
    /\ Len(buffer) = 6
    /\ \A k \in DOMAIN buffer : buffer[k] = 0
    /\ outcome = InvalidFile(MsgNoFrames)

(***************************************************************************)
(* C7.  With a leading tag whose span 10 + declared size exceeds the       *)
(* buffer length the call fails with InvalidFile 'Invalid ID3v2 tag size'  *)
(* and the loop is never entered; with a span up to the buffer length,     *)
(* the buffer length included, that error does not occur and the scan      *)
(* starts at the span.                                                     *)
(***************************************************************************)
C7_OversizedTagFails ==
    (file.lead.present /\ pc \in {"loop", "exit", "done"})
        => IF 10 + file.lead.tagSize > Len(buffer)
           THEN pc = "done" /\ outcome = InvalidFile(MsgTagSize)
                            /\ position = 10 + file.lead.tagSize
           ELSE outcome.message # MsgTagSize /\ position >= 10 + file.lead.tagSize

\* A tag whose span is one more than the buffer length has been rejected.
C7_Witness ==
    /\ pc = "done"
    /\ file.lead.present
    /\ 10 + file.lead.tagSize = Len(buffer) + 1
    /\ outcome = InvalidFile(MsgTagSize)

(***************************************************************************)
(* C8.  Whenever an iteration increments frameCount, the 4 bytes at the    *)
(* cursor are a sync-matching header with version 3, layer 1, bitrate      *)
(* index in 1..14 and sample-rate index in 0..2; an iteration at a         *)
(* sync-matching header that fails one of these moves the cursor by        *)
(* exactly 1 and leaves frameCount alone.                                  *)
(***************************************************************************)
SyncAt(buf, p) == buf[p + 1] = 255 /\ buf[p + 2] >= 224

SupportedAt(buf, p) ==
    /\ (buf[p + 2] \div 8) % 4 = 3
    /\ (buf[p + 2] \div 2) % 4 = 1
    /\ (buf[p + 3] \div 16) \in 1..14
    /\ (buf[p + 3] \div 4) % 4 \in 0..2

C8_OnlySupportedHeadersCount ==
    [][pc = "loop" =>
          /\ frameCount' = frameCount + 1
                => SyncAt(buffer, position) /\ SupportedAt(buffer, position)
          /\ (position + 4 < endPosition /\ SyncAt(buffer, position)
                                         /\ ~SupportedAt(buffer, position))
                => position' = position + 1 /\ frameCount' = frameCount]_vars

\* A header with bitrate index 15 was skipped and the frame behind it counted.
C8_Witness ==
    /\ pc = "loop"
    /\ file.raw = createFrameHeader([Header96 EXCEPT !.bitrateIndex = 15])
    /\ position = 100
    /\ frameCount = 1

(***************************************************************************)
(* C9.  The outcome depends on the buffer alone: two calls on the same     *)
(* file, whatever was scanned before or between them, end the same way.    *)
(***************************************************************************)
C9_SameBufferSameOutcome ==
    \A i, j \in DOMAIN history :
        history[i].file = history[j].file => history[i].outcome = history[j].outcome

\* The same file was counted twice with another file scanned in between.
C9_Witness ==
    /\ Len(history) = 3
    /\ history[1].file = history[3].file
    /\ history[2].file # history[1].file
    /\ history[1].outcome.kind = "return"
    /\ history[2].outcome.kind = "return"

(***************************************************************************)
(* C10.  A call ends either by returning a count of at least 1 or by       *)
(* failing with InvalidFile; UnsupportedFormat and ParseError never leave  *)
(* it.                                                                     *)
(***************************************************************************)
CountOrInvalidFile(o) ==
    \/ o.kind = "return" /\ o.error = "" /\ o.frameCount >= 1
    \/ o.kind = "throw" /\ o.error = "InvalidFileError"

C10_CountOrInvalidFileOnly ==
    /\ pc = "done" => CountOrInvalidFile(outcome)
    /\ \A i \in DOMAIN history : CountOrInvalidFile(history[i].outcome)

\* A header of the wrong layer was rejected inside the loop and the call
\* still returned a count.
C10_Witness ==
    /\ pc = "done"
    /\ file.raw = createFrameHeader([Header96 EXCEPT !.layer = 2])
    /\ outcome = Return(1)

(***************************************************************************)
(* C11.  Resynchronisation loses no frame: for a buffer P ++ F1..FN, where *)
(* F1..FN are well-formed frames, none auxiliary, and no offset of P holds *)
(* a header that is accepted (supported, with a frame that fits in the     *)
(* buffer), the count is N; in particular a rejected sync-matching         *)
(* candidate one byte before F1 does not hide F1.  P is plain junk here:   *)
(* it does not begin with "ID3" and the buffer has no "TAG" 128 bytes      *)
(* before its end.                                                         *)
(***************************************************************************)
FrameSizeAt(buf, p) ==
    ((144 * MPEG1_LAYER3_BITRATES[(buf[p + 3] \div 16) + 1] * 1000)
        \div MPEG1_SAMPLE_RATES[((buf[p + 3] \div 4) % 4) + 1])
    + ((buf[p + 3] \div 2) % 2)

AcceptedAt(buf, p) ==
    /\ p + 4 <= Len(buf)
    /\ SyncAt(buf, p)
    /\ SupportedAt(buf, p)
    /\ p + FrameSizeAt(buf, p) <= Len(buf)

JunkThenFrames(f) ==
    /\ ~f.lead.present
    /\ ~f.trail.present
    /\ f.raw # <<>>
    /\ ~LiteralAt(f.raw, 0, StrID3)
    /\ AllWellFormed(f)
    /\ NoneAuxiliary(f)
    /\ NoTrailerSignature(Build(f))
    /\ \A p \in 0..(Len(f.raw) - 1) : ~AcceptedAt(Build(f), p)

C11_ResyncCountsEveryFrame ==
    (pc = "done" /\ JunkThenFrames(file)) => outcome = Return(Len(file.frames))

(***************************************************************************)
(* C12.  A buffer in which no byte offset holds a sync-matching header     *)
(* with version 3 and layer 1 never yields a count.  As stated, the error  *)
(* is always InvalidFile 'No valid MPEG Version 1 Audio Layer 3 frames     *)
(* found'.                                                                 *)
(***************************************************************************)
NoLayer3Header(buf) ==
    \A p \in 0..(Len(buf) - 4) :
        ~(/\ SyncAt(buf, p)
          /\ (buf[p + 2] \div 8) % 4 = 3
          /\ (buf[p + 2] \div 2) % 4 = 1)

SizeExamples ==
    {<<128, 44100, 417>>, <<320, 48000, 960>>, <<32, 44100, 104>>,
     <<192, 44100, 626>>, <<320, 44100, 1044>>}

C13_FrameSizeFormula ==
    answer.fn = "calculateFrameSize" =>
        LET b == probe.bitrate
            r == probe.sampleRate
            pad == IF probe.padding THEN 1 ELSE 0
            q == answer.value.size - pad
        IN  /\ ~answer.value.ok <=> (b = 0 \/ r = 0)
            /\ answer.value.ok =>
                  /\ q * r <= 144 * b * 1000
                  /\ 144 * b * 1000 < (q + 1) * r
                  /\ \A x \in SizeExamples :
                        (b = x[1] /\ r = x[2]) => answer.value.size = x[3] + pad

\* 128 kbps at 44100 Hz with padding: 418 bytes, the remainder dropped.
C13_Witness ==
    /\ answer.fn = "calculateFrameSize"
    /\ probe.bitrate = 128
    /\ probe.sampleRate = 44100
    /\ probe.padding
    /\ answer.value = [ok |-> TRUE, size |-> 418]

(***************************************************************************)
(* C14.  validateFrameHeader accepts a header iff version = 3, layer = 1,  *)
(* bitrate index in 1..14 and sample-rate index in 0..2; otherwise it      *)
(* fails with UnsupportedFormat and the message of the first violated      *)
(* constraint in the order version, layer, bitrate index, sample-rate      *)
(* index.                                                                  *)
(***************************************************************************)
Constraints(h) ==
    <<[met |-> h.versionId = 3, message |-> MsgVersion],
      [met |-> h.layer = 1, message |-> MsgLayer],
      [met |-> h.bitrateIndex \in 1..14, message |-> MsgBitrate],
      [met |-> h.sampleRateIndex \in 0..2, message |-> MsgSampleRate]>>

FirstViolated(h) ==
    CHOOSE i \in 1..4 :
        ~Constraints(h)[i].met /\ \A j \in 1..(i - 1) : Constraints(h)[j].met

C14_ValidationOrder ==
    answer.fn = "validateFrameHeader" =>
        LET h == probe.header
        IN  IF \A i \in 1..4 : Constraints(h)[i].met
            THEN answer.value.kind = "ok"
            ELSE /\ answer.value.kind = "throw"
                 /\ answer.value.error = "UnsupportedFormatError"
                 /\ answer.value.message = Constraints(h)[FirstViolated(h)].message

\* A header that violates all four constraints is reported for its version.
C14_Witness ==
    /\ answer.fn = "validateFrameHeader"
    /\ probe.header.versionId = 2
    /\ probe.header.layer = 2
    /\ probe.header.bitrateIndex = 15
    /\ probe.header.sampleRateIndex = 3
    /\ answer.value = Throw("UnsupportedFormatError", MsgVersion)

(***************************************************************************)
(* C15.  extractFrameHeader(buffer, position) yields none iff              *)
(* position + 4 > buffer.length, or byte 0 is not 0xFF, or the top 3 bits  *)
(* of byte 1 are not all 1; otherwise the fields of the header are the bit *)
(* fields of the 4 bytes, so the 4 bytes createFrameHeader(h) builds       *)
(* decode to h, for every h with version, layer and channel mode in 0..3,  *)
(* bitrate index in 0..15, sample-rate index in 0..3, padding in 0..1 and  *)
(* either CRC flag.                                                        *)
(***************************************************************************)
FieldsOf(b0, b1, b2, b3) ==
    [versionId |-> (b1 \div 8) % 4,
     layer |-> (b1 \div 2) % 4,
     bitrateIndex |-> b2 \div 16,
     sampleRateIndex |-> (b2 \div 4) % 4,
     paddingBit |-> (b2 \div 2) % 2,
     hasCrc |-> (b1 % 2 = 0),
     channelMode |-> b3 \div 64]

Fields(h) ==
    [versionId |-> h.versionId, layer |-> h.layer, bitrateIndex |-> h.bitrateIndex,
     sampleRateIndex |-> h.sampleRateIndex, paddingBit |-> h.paddingBit,
     hasCrc |-> h.hasCrc, channelMode |-> h.channelMode]

C15_HeaderDecoding ==
    answer.fn = "extractFrameHeader" =>
        LET buf == probe.buffer
            p == probe.position
            none == \/ p + 4 > Len(buf)
                    \/ buf[p + 1] # 255
                    \/ buf[p + 2] \div 32 # 7
        IN  /\ ~answer.value.present <=> none
            /\ ~none => Fields(answer.value)
                            = FieldsOf(buf[p + 1], buf[p + 2], buf[p + 3], buf[p + 4])
            /\ probe.encoded => answer.value.present /\ Fields(answer.value) = probe.header

\* An encoded header with every field away from its default comes back.
C15_Witness ==
    /\ answer.fn = "extractFrameHeader"
    /\ probe.encoded
    /\ probe.header = [versionId |-> 2, layer |-> 3, bitrateIndex |-> 15,
                        sampleRateIndex |-> 3, paddingBit |-> 1, hasCrc |-> TRUE,
                        channelMode |-> 2]
    /\ answer.value.present
    /\ Fields(answer.value) = probe.header

(***************************************************************************)
(* C16.  isXingLameHeader(buffer, position, header, frameSize) is true iff *)
(* identifierOffset + 4 <= position + frameSize and the 4 bytes at         *)
(* identifierOffset are "Xing" or "Info", where identifierOffset =         *)
(* position + 4 + (2 if the header has a CRC) + (17 if the channel mode is *)
(* 3, else 32).                                                            *)
(***************************************************************************)
IdentifierOffset(pos, header) ==
    pos + 4 + (IF header.hasCrc THEN 2 ELSE 0)
            + (IF header.channelMode = 3 THEN 17 ELSE 32)

HasBit(n, k) == (n \div (2 ^ k)) % 2 = 1

\* The bitwise or of a set of numbers below 2^30, bit by bit.
RECURSIVE OrUpTo(_, _)
OrUpTo(ns, k) ==
    IF k < 0 THEN 0
    ELSE (IF \E n \in ns : HasBit(n, k) THEN 2 ^ k ELSE 0) + OrUpTo(ns, k - 1)

C17_TagSizeDecoding ==
    answer.fn = "getID3v2Size" =>
        LET buf == probe.buffer
        IN  /\ Len(buf) < 10 => answer.value = 0
            /\ Len(buf) >= 10 =>
                  answer.value = 10 + OrUpTo({buf[7] * 2097152, buf[8] * 16384,
                                              buf[9] * 128, buf[10]}, 29)
            /\ probe.encoded => answer.value = 10 + probe.tagSize

\* The largest 28-bit size, declared by a header with nothing behind it.
C17_Witness ==
    /\ answer.fn = "getID3v2Size"
    /\ probe.encoded
    /\ probe.tagSize = 268435455
    /\ Len(probe.buffer) = 10
    /\ answer.value = 268435465

(***************************************************************************)
(* C18.  hasID3v1Tag(buffer) is true iff the buffer has at least 128 bytes *)
(* and the 3 bytes at index length - 128 are "TAG"; "TAG" at any other     *)
(* offset does not make it true, and a buffer shorter than 128 bytes       *)
(* always gives false.                                                     *)
(***************************************************************************)
C18_TrailerSignatureDecides ==
    answer.fn = "hasID3v1Tag" =>
        (answer.value
            <=> /\ Len(probe.buffer) >= 128
                /\ LiteralAt(probe.buffer, Len(probe.buffer) - 128, StrTAG))

(***************************************************************************)
(* C19.  uploadFile produces exactly one outcome per request.  Without an  *)
(* uploaded file it responds 400 'No file uploaded. Please provide an MP3  *)
(* file.' and countMP3Frames is not called; with a file countMP3Frames is  *)
(* called once, on the buffer of that file, and the response is 200 with   *)
(* exactly the frameCount returned; when countMP3Frames throws, uploadFile *)
(* sends no response and passes that error to next.                        *)
(***************************************************************************)
\* The requests answered so far that carried a file, in order.
WithFile == SelectSeq(replies, LAMBDA r : r.hasFile)

OneOutcome(r) == Len(r.responses) + Len(r.forwarded) = 1

C19_Replies ==
    /\ \A i \in DOMAIN replies :
          /\ OneOutcome(replies[i])
          /\ ~replies[i].hasFile =>
                replies[i].responses =
                    <<[status |-> 400,
                       body |-> [error |-> "No file uploaded. Please provide an MP3 file."]]>>
    /\ Len(WithFile) = Len(history)
    /\ \A i \in DOMAIN history :
          LET r == WithFile[i]
              call == history[i]
          IN  /\ r.upload = call.file
              /\ call.outcome.kind = "return" =>
                    r.responses = <<[status |-> 200,
                                     body |-> [frameCount |-> call.outcome.frameCount]]>>
              /\ call.outcome.kind = "throw" =>
                    r.responses = <<>> /\ r.forwarded = <<call.outcome>>

\* A request without a file starts no call of countMP3Frames.
C19_NoFileNoCall ==
    [][(replies' # replies /\ ~replies'[Len(replies')].hasFile)
          => (pc = "idle" /\ pc' = "idle" /\ history' = history /\ buffer' = buffer)]_vars

C19_OneOutcomePerRequest == []C19_Replies /\ C19_NoFileNoCall

\* A request without a file, then a file counted, then a file rejected.
C19_Witness ==
    /\ Len(replies) = 3
    /\ ~replies[1].hasFile
    /\ replies[2].hasFile /\ replies[2].responses # <<>>
                           /\ replies[2].responses[1].status = 200
    /\ replies[3].hasFile /\ replies[3].forwarded # <<>>

(***************************************************************************)
(* C20.  filesErrorHandler answers every InvalidFileError,                 *)
(* UnsupportedFormatError and ParseError with status 400 and the error's   *)
(* own message, and every error of no handled kind (not a Multer error,    *)
(* not the file-type error, not one of the three) with status 500 and      *)
(* 'Internal server error'; it sends exactly one response per error.       *)
(***************************************************************************)
OneOfTheThree(err) ==
    err.class \in {"InvalidFileError", "UnsupportedFormatError", "ParseError"}

Unhandled(err) ==
    /\ ~OneOfTheThree(err)
    /\ err.class # "MulterError"
    /\ err.name # "MulterError"
    /\ err.message # "Only MP3 files are allowed"

C20_ErrorMapping ==
    answer.fn = "filesErrorHandler" =>
        /\ Len(answer.value) = 1
        /\ OneOfTheThree(probe.err) =>
              answer.value[1] = [status |-> 400, body |-> [error |-> probe.err.message]]
        /\ Unhandled(probe.err) =>
              answer.value[1] = [status |-> 500,
                                 body |-> [error |-> "Internal server error"]]

\* A ParseError has been answered with its own message.
C20_Witness ==
    /\ answer.fn = "filesErrorHandler"
    /\ probe.err.class = "ParseError"
    /\ answer.value = <<[status |-> 400,
                          body |-> [error |-> "Invalid bitrate or sample rate in frame header"]]>>

(***************************************************************************)
(* C21.  Throughout a scan the cursor never decreases and, as stated,      *)
(* stays within the scan bounds: scanStart <= cursor < scanEnd from        *)
(* initialisation to loop exit, where scanStart is 0 or the leading-tag    *)
(* span and scanEnd is the buffer length, or the length - 128 when a       *)
(* trailing tag is present.                                                *)
(***************************************************************************)
ScanStart(f) == IF f.lead.present THEN 10 + f.lead.tagSize ELSE 0

ScanEnd(f) == Len(Build(f)) - (IF f.trail.present THEN 128 ELSE 0)

Scanning == pc \in {"loop", "exit"}

CursorNeverDecreases == [][position' >= position]_vars

C21_CursorBelowScanEnd ==
    /\ [](Scanning => (ScanStart(file) <= position /\ position < ScanEnd(file)))
    /\ CursorNeverDecreases

(***************************************************************************)
(* C21, amended.  Throughout a scan the cursor never decreases and         *)
(* scanStart <= cursor <= buffer length from initialisation to loop exit;  *)
(* every iteration starts with cursor < scanEnd - 4.  (After the last      *)
(* iteration the cursor may equal scanEnd, and a frame that runs into the  *)
(* trailing tag takes it past scanEnd.)                                    *)
(***************************************************************************)
C21_CursorWithinBuffer ==
    /\ [](Scanning => (ScanStart(file) <= position /\ position <= Len(buffer)))
    /\ [][(pc = "loop" /\ position' # position) => position < ScanEnd(file) - 4]_vars
    /\ CursorNeverDecreases

\* After the last of two frames behind a leading tag the cursor is at scanEnd.
C21_Witness ==
    /\ pc = "exit"
    /\ file.lead.present
    /\ frameCount = 2
    /\ position = ScanEnd(file)

(***************************************************************************)
(* C22.  Every invocation of countMP3Frames terminates: each loop          *)
(* iteration strictly increases the cursor, so the loop runs at most       *)
(* scanEnd - scanStart iterations before the call returns or fails.        *)
(***************************************************************************)
C22_ScanTerminates ==
    /\ <>(pc = "done")
    /\ [][(iterations' = iterations + 1 /\ pc' = "loop") => position' > position]_vars
    /\ [](Scanning => iterations <= ScanEnd(file) - ScanStart(file))

\* A call that needed more than 100 iterations has ended.
C22_Witness ==
    /\ pc = "done"
    /\ iterations > 100
    /\ outcome.kind = "return"

(***************************************************************************)
(* C23.  Each iteration of the scan loop takes exactly one of three        *)
(* transitions: SkipByte (cursor + 1, count unchanged), SkipFrame for a    *)
(* frame classified auxiliary (cursor + frameSize, count unchanged) or     *)
(* EmitFrame (cursor + frameSize, count + 1); the count never decreases,   *)
(* changes only on EmitFrame, and grows by exactly 1 per emitted frame.    *)
(***************************************************************************)
IterationStep == iterations' = iterations + 1

\* A supported header at the cursor whose frame ends inside the buffer.
FrameAtCursor == AcceptedAt(buffer, position)

ClassifiedAuxiliary ==
    isXingLameHeader(buffer, position, extractFrameHeader(buffer, position),
                     FrameSizeAt(buffer, position))

SkipByteStep == position' = position + 1 /\ frameCount' = frameCount

SkipFrameStep ==
    /\ FrameAtCursor
    /\ ClassifiedAuxiliary
    /\ position' = position + FrameSizeAt(buffer, position)
    /\ frameCount' = frameCount

EmitFrameStep ==
    /\ FrameAtCursor
    /\ ~ClassifiedAuxiliary
    /\ position' = position + FrameSizeAt(buffer, position)
    /\ frameCount' = frameCount + 1

C23_ThreeTransitions ==
    /\ [][IterationStep =>
             /\ pc' = "loop"
             /\ SkipByteStep \/ SkipFrameStep \/ EmitFrameStep
             /\ ~(SkipByteStep /\ SkipFrameStep)
             /\ ~(SkipByteStep /\ EmitFrameStep)
             /\ ~(SkipFrameStep /\ EmitFrameStep)]_vars
    /\ [][frameCount' # frameCount => (IterationStep /\ EmitFrameStep)]_vars

\* One frame has been skipped as auxiliary and the next one counted.
C23_Witness ==
    /\ pc = "loop"
    /\ iterations = 2
    /\ frameCount = 1
    /\ position = Len(buffer)
    /\ file.frames # <<>>
    /\ CarriesIdentifier(file.frames[1])

(***************************************************************************)
(* C24.  A candidate with a valid header whose computed frame would end    *)
(* past the buffer length (cursor + frameSize > buffer.length) is never    *)
(* counted and never skipped as a frame: the cursor advances by exactly 1, *)
(* so a truncated final frame adds nothing to the count.                   *)
(***************************************************************************)
ValidHeaderAt(buf, p) == p + 4 <= Len(buf) /\ SyncAt(buf, p) /\ SupportedAt(buf, p)

Overruns(buf, p) == p + FrameSizeAt(buf, p) > Len(buf)

\* The buffer is whole frames followed by the first bytes of one more.
EndsTruncated(f) == f \in TruncatedFiles /\ ~f.trail.present

WholeFramesOf(f) == IF Len(f.raw) > 105 THEN 1 ELSE 0

C24_TruncatedFrameNotCounted ==
    /\ [][(IterationStep /\ ValidHeaderAt(buffer, position) /\ Overruns(buffer, position))
             => SkipByteStep]_vars
    /\ []((pc = "done" /\ EndsTruncated(file))
             => outcome = (IF WholeFramesOf(file) = 0 THEN InvalidFile(MsgNoFrames)
                           ELSE Return(WholeFramesOf(file))))

\* The cursor has moved one byte past the header of a frame cut at byte 104.
C24_Witness ==
    /\ pc = "loop"
    /\ EndsTruncated(file)
    /\ Len(buffer) = 96 + 104
    /\ position = 97
    /\ ValidHeaderAt(buffer, 96)
    /\ Overruns(buffer, 96)
    /\ frameCount = 1

(***************************************************************************)
(* C25.  A buffer that starts with "ID3" but is shorter than 10 bytes      *)
(* (length 4..9), for which getID3v2Size returns 0, is an error for        *)
(* countMP3Frames: the call fails with InvalidFile and never returns a     *)
(* count.                                                                  *)
(***************************************************************************)
ShortTagHeader(buf) == Len(buf) \in 4..9 /\ LiteralAt(buf, 0, StrID3)

C25_ShortTagHeaderFails ==
    (pc = "done" /\ ShortTagHeader(buffer))
        => outcome.kind = "throw" /\ outcome.error = "InvalidFileError"

\* A 9-byte tag header has been scanned from offset 0 and rejected.
C25_Witness ==
    /\ pc = "done"
    /\ ShortTagHeader(buffer)
    /\ Len(buffer) = 9
    /\ iterations = 5
    /\ outcome = InvalidFile(MsgNoFrames)

(***************************************************************************)
(* C26.  During a scan ParseError cannot occur: whenever the header at the *)
(* cursor passes validateFrameHeader, both table lookups (bitrate index    *)
(* 1..14, sample-rate index 0..2) give a non-zero rate, so the zero branch *)
(* is not taken and calculateFrameSize is not called with a zero bitrate   *)
(* or sample rate.                                                         *)
(***************************************************************************)
HeaderAtCursor == extractFrameHeader(buffer, position)

PassesValidation ==
    /\ pc = "loop"
    /\ position + 4 <= Len(buffer)
    /\ HeaderAtCursor.present
    /\ validateFrameHeader(HeaderAtCursor).kind = "ok"

C26_NoParseError ==
    /\ outcome.error # "ParseError"
    /\ PassesValidation =>
          LET bitrate == MPEG1_LAYER3_BITRATES[HeaderAtCursor.bitrateIndex + 1]
              sampleRate == MPEG1_SAMPLE_RATES[HeaderAtCursor.sampleRateIndex + 1]
          IN  /\ HeaderAtCursor.bitrateIndex \in 1..14
              /\ HeaderAtCursor.sampleRateIndex \in 0..2
              /\ bitrate # 0
              /\ sampleRate # 0
              /\ calculateFrameSize(bitrate, sampleRate,
                                    HeaderAtCursor.paddingBit = 1).ok

\* The scan is at a header with the last index of both tables in use.
C26_Witness ==
    /\ PassesValidation
    /\ HeaderAtCursor.bitrateIndex = 14
    /\ HeaderAtCursor.sampleRateIndex = 2
    /\ iterations = 0

(***************************************************************************)
(* C27.  The tag spans are excluded from frame scanning: every frame that  *)
(* is counted lies entirely inside [scanStart, scanEnd), so with a         *)
(* trailing tag present the byte range [cursor, cursor + frameSize) of a   *)
(* counted frame does not overlap the last 128 bytes of the buffer, and no *)
(* counted frame starts inside the leading tag span.                       *)
(***************************************************************************)
C27_CountedFramesAvoidTags ==
    [][frameCount' = frameCount + 1
          => /\ ScanStart(file) <= position
             /\ position' = position + FrameSizeAt(buffer, position)
             /\ position' <= ScanEnd(file)]_vars

(***************************************************************************)
(* C28.  countMP3Frames never reads a byte outside the buffer: every index *)
(* it or its helpers read (tag signatures, size bytes 6..9, the two sync   *)
(* bytes and the 4 header bytes at the cursor, the 4 identifier bytes of   *)
(* the auxiliary check) is at least 0 and below the buffer length, for     *)
(* every buffer of 4 bytes or more and every cursor position reached.      *)
(***************************************************************************)
InBuffer(indices) == \A i \in indices : 0 <= i /\ i < Len(buffer)

C28_ReadsInsideBuffer ==
    /\ pc = "tags" => InBuffer(TagReads(buffer))
    /\ (pc = "loop" /\ InLoop(position, endPosition))
          => InBuffer(LoopReads(buffer, position))

\* The identifier of a frame that ends with the buffer is about to be read.
C28_Witness ==
    /\ pc = "loop"
    /\ InLoop(position, endPosition)
    /\ position + 96 = Len(buffer)
    /\ (position + 36)..(position + 39) \subseteq LoopReads(buffer, position)
    /\ frameCount = 1

(***************************************************************************)
(* C29.  The byte ranges of the frames the scan accepts (counted or        *)
(* skipped as auxiliary) are pairwise disjoint, appear in increasing order *)
(* and lie within [scanStart, buffer length); hence the returned           *)
(* frameCount times the smallest frame size, 96 bytes, never exceeds       *)
(* buffer length - scanStart.                                              *)
(***************************************************************************)
\* The size of a frame of 32 kbps at 48000 Hz without padding.
SmallestFrame == calculateFrameSize(32, 48000, FALSE).size

\* An iteration that accepts the frame at the cursor, counted or not.
AcceptStep == IterationStep /\ position' # position + 1

\* The accepted range [position, position') starts where the scan may be,
\* holds a whole frame and ends inside the buffer.
RangeInsideBuffer ==
    /\ ScanStart(file) <= position
    /\ position' = position + FrameSizeAt(buffer, position)
    /\ position' >= position + SmallestFrame
    /\ position' <= Len(buffer)

\* The ranges accepted so far end at or before the cursor, the next one starts
\* at or after it: the counted ones fit between scanStart and the cursor.
CountedRangesFit ==
    /\ ScanStart(file) <= position
    /\ position <= Len(buffer)
    /\ frameCount * SmallestFrame <= position - ScanStart(file)

C29_AcceptedRangesDisjoint ==
    /\ [][AcceptStep => RangeInsideBuffer]_vars
    /\ [][position' >= position]_vars
    /\ [](Scanning => CountedRangesFit)
    /\ []((pc = "done" /\ outcome.kind = "return")
            => outcome.frameCount * SmallestFrame
                   <= Len(buffer) - ScanStart(file))

\* Two counted frames of 96 bytes fill the bytes after the leading tag.
C29_Witness ==
    /\ pc = "done"
    /\ file.lead.present
    /\ outcome = Return(2)
    /\ 2 * SmallestFrame = Len(buffer) - ScanStart(file)

(***************************************************************************)
(* C30.  For every header that passes validation, the frame size computed  *)
(* from the bitrate and sample-rate tables is between 96 (32 kbps,         *)
(* 48000 Hz, no padding) and 1441 (320 kbps, 32000 Hz, padded); so inside  *)
(* the scan the rejection 'frameSize <= 0' never fires, and the guard of   *)
(* isXingLameHeader against an identifier outside the frame (identifier    *)
(* end at most cursor + 42) never makes it return false.                   *)
(***************************************************************************)
SizeAtCursor ==
    calculateFrameSize(MPEG1_LAYER3_BITRATES[HeaderAtCursor.bitrateIndex + 1],
                       MPEG1_SAMPLE_RATES[HeaderAtCursor.sampleRateIndex + 1],
                       HeaderAtCursor.paddingBit = 1).size

IdentifierEndAtCursor ==
    position + 4 + (IF HeaderAtCursor.hasCrc THEN 2 ELSE 0)
        + (IF HeaderAtCursor.channelMode = 3 THEN 17 ELSE 32) + 4

IdentifierAtCursor ==
    AsciiSlice(buffer, IdentifierEndAtCursor - 4, IdentifierEndAtCursor)

C30_FrameSizeRange ==
    PassesValidation =>
        /\ 96 <= SizeAtCursor
        /\ SizeAtCursor <= 1441
        /\ ~(SizeAtCursor <= 0)
        /\ IdentifierEndAtCursor <= position + 42
        /\ ~(IdentifierEndAtCursor > position + SizeAtCursor)
        /\ isXingLameHeader(buffer, position, HeaderAtCursor, SizeAtCursor)
               = (IdentifierAtCursor \in {StrXing, StrInfo})

\* The largest frame, with CRC: the identifier ends at cursor + 42.
C30_Witness ==
    /\ PassesValidation
    /\ InLoop(position, endPosition)
    /\ SizeAtCursor = 1441
    /\ IdentifierEndAtCursor = position + 42
====
